---- MODULE Spec2Model ----
(***************************************************************************)
(* State-machine model of the snake engine in                              *)
(* src/src/components/SnakeGame.tsx: the React state and refs of the       *)
(* SnakeGame component, its event handlers, its effects and the interval   *)
(* callback that drives one tick.                                          *)
(*                                                                         *)
(* Every handler is one atomic action that includes the render and the     *)
(* effects React runs after it (the directionRef sync, the high-score      *)
(* persistence and the cancel/re-arm of the interval).                     *)
(***************************************************************************)
EXTENDS Integers, Sequences, FiniteSets, TLC

(***************************************************************************)
(* Bounds.  The source fixes GRID_SIZE at 25 (SnakeGame.tsx line 14); the  *)
(* model scales the board down so that every cell, every wall and the      *)
(* full board are within reach of an exhaustive search.  All formulas are  *)
(* written against GRID_SIZE, never against its value.                     *)
(***************************************************************************)
GRID_SIZE == 3

\* Ticks explored per session (the counter "ticks" stops the search there;
\* a snake that covers the board is followed for one tick more).
MaxTicks == 7

\* Program constants (SnakeGame.tsx lines 17-19).
INITIAL_SPEED == 150
SPEED_FLOOR == 60
SPEED_STEP == 4

\* The board size of the source, used only to evaluate createInitialSnake
\* at the shipped size.
SHIPPED_GRID_SIZE == 25

\* silentTicks while the user may still give input
NoSilence == 0 - 1

\* null of nextDirectionRef / loopRef / localStorage.getItem
NULL == <<>>
\* NaN of Number.parseInt, outside the values parseInt gives on the model's
\* strings (a sign and at most two digits)
NaN == 0 - 1000

VARIABLES
    snake,             \* useState<Cell[]>, head first
    direction,         \* useState<Cell> direction
    directionRef,      \* directionRef.current
    nextDirectionRef,  \* nextDirectionRef.current (NULL or a direction)
    food,              \* useState<Cell> food
    isRunning,         \* useState(false)
    isGameOver,        \* useState(false)
    score,
    highScore,
    speed,
    loopRef,           \* loopRef.current: 0 (null) or the id of an interval
    timers,            \* the live intervals of the window: <<id, interval>>
    storage,           \* localStorage["snake-highscore"]: NULL or a string
    mounted,           \* the mount effects have run
    started,           \* history: isRunning has been set to true at least once
    ticks,             \* history: ticks fired in this session
    silentTicks,       \* history: ticks fired since the user stopped giving
                       \* input (NoSilence while input may still arrive)
    last               \* history: the handler that ran last, its input, and
                       \* for a tick the locals of the callback and of step

vars == <<snake, direction, directionRef, nextDirectionRef, food, isRunning,
          isGameOver, score, highScore, speed, loopRef, timers, storage,
          mounted, started, ticks, silentTicks, last>>

----------------------------------------------------------------------------
(* Cells, directions, keys *)

Cell(x, y) == <<x, y>>

Coords == 0 .. (GRID_SIZE - 1)

Max(a, b) == IF a > b THEN a ELSE b

RIGHT == Cell(1, 0)
LEFT == Cell(-1, 0)
UP == Cell(0, -1)
DOWN == Cell(0, 1)

Directions == {RIGHT, LEFT, UP, DOWN}

\* event.key values the model feeds to the keydown listener
Keys == {" ", "ArrowUp", "ArrowDown", "ArrowLeft", "ArrowRight",
         "a", "W", "x"}

\* key.length === 1 ? key.toLowerCase() : key
NormalizeKey(key) ==
    CASE key = "W" -> "w"
      [] key = "A" -> "a"
      [] key = "S" -> "s"
      [] key = "D" -> "d"
      [] key = "X" -> "x"
      [] OTHER -> key

\* KEY_TO_DIRECTION[key]; NULL stands for undefined
KEY_TO_DIRECTION(key) ==
    CASE key = "ArrowUp" -> UP
      [] key = "ArrowDown" -> DOWN
      [] key = "ArrowLeft" -> LEFT
      [] key = "ArrowRight" -> RIGHT
      [] key = "w" -> UP
      [] key = "s" -> DOWN
      [] key = "a" -> LEFT
      [] key = "d" -> RIGHT
      [] OTHER -> NULL

cellsEqual(a, b) == a[1] = b[1] /\ a[2] = b[2]

createInitialSnakeAt(gridSize) ==
    LET center == gridSize \div 2
    IN  <<Cell(center + 1, center), Cell(center, center), Cell(center - 1, center)>>

createInitialSnake == createInitialSnakeAt(GRID_SIZE)

SnakeCells(s) == {s[i] : i \in 1 .. Len(s)}

----------------------------------------------------------------------------
(* getRandomFood *)

\* The free cells in scan order: y outer, x inner.
RECURSIVE ScanFrom(_, _)
ScanFrom(k, occupied) ==
    IF k >= GRID_SIZE * GRID_SIZE THEN <<>>
    ELSE LET c == Cell(k % GRID_SIZE, k \div GRID_SIZE)
         IN  (IF c \in SnakeCells(occupied) THEN <<>> ELSE <<c>>)
                 \o ScanFrom(k + 1, occupied)

Spaces(occupied) == ScanFrom(0, occupied)

\* Math.random() is drawn from {k / RandomDen : k \in 0 .. RandomDen - 1}.
RandomDen == 3

RandomDraws == 0 .. (RandomDen - 1)

\* Mutant: the new head is not counted as occupied.
getRandomFoodIgnoresHead(occupied, r) ==
    LET spaces == Spaces(Tail(occupied))
    IN  IF Len(spaces) = 0 THEN Cell(0, 0)
        ELSE spaces[((r * Len(spaces)) \div RandomDen) + 1]

getRandomFood(occupied, r) ==
    LET spaces == Spaces(occupied)
    IN  IF Len(spaces) = 0 THEN Cell(0, 0)
        ELSE spaces[((r * Len(spaces)) \div RandomDen) + 1]

\* The cells getRandomFood returns over the draws of Math.random()
FoodChoices(occupied) == {getRandomFood(occupied, r) : r \in RandomDraws}

\* getRandomFood(createInitialSnake()) of the first render and of resetGame
InitialFoodChoices == FoodChoices(createInitialSnake)

----------------------------------------------------------------------------
(* localStorage strings *)

Digits == <<"0", "1", "2", "3", "4", "5", "6", "7", "8", "9">>

IsDigit(c) == \E i \in 1 .. 10 : Digits[i] = c

DigitValue(c) == (CHOOSE i \in 1 .. 10 : Digits[i] = c) - 1

\* Number.parseInt(s, 10) on a string of the model's alphabet (digits,
\* letters and the minus sign): an optional sign, then the value of the
\* longest prefix of digits, NaN when that prefix is empty.
RECURSIVE ParsePrefix(_, _, _)
ParsePrefix(s, i, acc) ==
    IF i > Len(s) \/ ~IsDigit(s[i]) THEN acc
    ELSE ParsePrefix(s, i + 1, acc * 10 + DigitValue(s[i]))

parseInt(s) ==
    IF Len(s) = 0 THEN NaN
    ELSE IF s[1] = "-"
    THEN IF Len(s) < 2 \/ ~IsDigit(s[2]) THEN NaN
         ELSE 0 - ParsePrefix(s, 2, 0)
    ELSE IF ~IsDigit(s[1]) THEN NaN
    ELSE ParsePrefix(s, 1, 0)

\* String(n) for an integer
RECURSIVE NumberToString(_)
NumberToString(n) ==
    IF n < 0 THEN <<"-">> \o NumberToString(0 - n)
    ELSE IF n < 10 THEN <<Digits[n + 1]>>
    ELSE NumberToString(n \div 10) \o <<Digits[(n % 10) + 1]>>

\* What the store may hold when the page loads.  A missing item (null) and the
\* empty string are both <<>>: the code tests the item for truthiness only.
StoredItems == {NULL, <<"x">>, <<"2", "0">>, <<"-", "5">>}

----------------------------------------------------------------------------
(* Effects run after a render *)

\* window.clearInterval(loopRef.current) guarded by "if (loopRef.current)"
ClearLoop(ts, ref) == {t \in ts : ref = 0 \/ t[1] # ref}

\* window.setInterval returns an id no live interval has
FreshId(ts) == CHOOSE i \in 1 .. (Cardinality(ts) + 1) : \A t \in ts : t[1] # i

\* Mutant: a stopped game returns before clearing the interval.
TimerEffectLeavesInterval(ts, ref, changed, running, over, spd) ==
    IF ~changed \/ ~running \/ over THEN <<ts, ref>>
    ELSE LET cleared == ClearLoop(ts, ref)
         IN  <<cleared \cup {<<FreshId(cleared), spd>>}, FreshId(cleared)>>

\* Mutant: a new interval is armed without clearing the previous one.
TimerEffectKeepsPrevious(ts, ref, changed, running, over, spd) ==
    IF ~changed THEN <<ts, ref>>
    ELSE IF ~running \/ over THEN <<ClearLoop(ts, ref), 0>>
    ELSE <<ts \cup {<<FreshId(ts), spd>>}, FreshId(ts)>>

\* Mutant: the effect tests the run flag only, not the game-over flag.
TimerEffectIgnoresGameOver(ts, ref, changed, running, over, spd) ==
    IF ~changed THEN <<ts, ref>>
    ELSE LET cleared == ClearLoop(ts, ref)
         IN  IF ~running THEN <<cleared, 0>>
             ELSE <<cleared \cup {<<FreshId(cleared), spd>>}, FreshId(cleared)>>

\* The tick-scheduling effect (deps: isRunning, isGameOver, speed, step; step
\* changes whenever setFood ran).  When a dependency changed, the cleanup of
\* the previous run clears the interval in loopRef, then the body re-arms one
\* at the new speed unless the game is stopped.  Result: <<timers, loopRef>>.
TimerEffect(ts, ref, changed, running, over, spd) ==
    IF ~changed THEN <<ts, ref>>
    ELSE LET cleared == ClearLoop(ts, ref)
         IN  IF ~running \/ over THEN <<cleared, 0>>
             ELSE <<cleared \cup {<<FreshId(cleared), spd>>}, FreshId(cleared)>>

\* The persistence effect (deps: highScore)
PersistEffect(store, changed, hs) ==
    IF changed THEN NumberToString(hs) ELSE store

----------------------------------------------------------------------------
(* The game *)

\* Mutant: the sum was dropped from the y test.
OppositeDroppedSum(current, desired) ==
    current[1] + desired[1] = 0 /\ current[2] = desired[2]

Opposite(current, desired) ==
    current[1] + desired[1] = 0 /\ current[2] + desired[2] = 0

NextHead(head, currentDirection) ==
    Cell(head[1] + currentDirection[1], head[2] + currentDirection[2])

\* Mutant: the far walls are tested with > instead of >=.
HitsWallOffByOne(nextHead) ==
    \/ nextHead[1] < 0
    \/ nextHead[2] < 0
    \/ nextHead[1] > GRID_SIZE
    \/ nextHead[2] > GRID_SIZE

\* Mutant: the test of the bottom wall is missing.
HitsWallNoBottom(nextHead) ==
    \/ nextHead[1] < 0
    \/ nextHead[2] < 0
    \/ nextHead[1] >= GRID_SIZE

\* Mutant: the test of the left wall is missing.
HitsWallNoLeft(nextHead) ==
    \/ nextHead[2] < 0
    \/ nextHead[1] >= GRID_SIZE
    \/ nextHead[2] >= GRID_SIZE

HitsWall(nextHead) ==
    \/ nextHead[1] < 0
    \/ nextHead[2] < 0
    \/ nextHead[1] >= GRID_SIZE
    \/ nextHead[2] >= GRID_SIZE

\* Mutant: the softened rule, which spares the tail cell.
HitsSelfSparesTail(previousSnake, nextHead) ==
    \E i \in 1 .. (Len(previousSnake) - 1) : cellsEqual(previousSnake[i], nextHead)

HitsSelf(previousSnake, nextHead) ==
    \E i \in 1 .. Len(previousSnake) : cellsEqual(previousSnake[i], nextHead)

\* Mutant: the floor is not applied.
NextSpeedNoFloor(currentSpeed) == currentSpeed - SPEED_STEP

\* Mutant: the step is taken from the initial speed, not the current one.
NextSpeedFromInitial(currentSpeed) == Max(SPEED_FLOOR, INITIAL_SPEED - SPEED_STEP)

NextSpeed(currentSpeed) == Max(SPEED_FLOOR, currentSpeed - SPEED_STEP)

\* Mutant: the high score is overwritten by every new score.
NextHighScoreOverwrite(updatedScore, currentHighScore) == updatedScore

NextHighScore(updatedScore, currentHighScore) ==
    IF updatedScore > currentHighScore THEN updatedScore ELSE currentHighScore

DropTail(s) == SubSeq(s, 1, Len(s) - 1)

\* The state of the machine the flags encode; Idle and Paused differ only in
\* the history (a run was started before).
Phase ==
    IF isGameOver THEN "gameover"
    ELSE IF isRunning THEN "running"
    ELSE IF started THEN "paused"
    ELSE "idle"

Event(kind) ==
    [kind |-> kind, from |-> Phase, active |-> NULL, outcome |-> "none",
     buffered |-> "none"]

\* A write of the buffer; it replaced a pending direction or set an empty
\* (or equal) buffer.
DirectionEvent(pending) ==
    [kind |-> "direction", from |-> Phase, active |-> NULL,
     outcome |-> IF nextDirectionRef # NULL /\ nextDirectionRef # pending
                 THEN "replaced" ELSE "set",
     buffered |-> "none"]

\* A tick; buffered tells whether the handler before it replaced a pending
\* direction.
TickEvent(active, outcome) ==
    [kind |-> "tick", from |-> Phase, active |-> active, outcome |-> outcome,
     buffered |-> IF last.kind = "direction" /\ last.outcome = "replaced"
                  THEN "replaced" ELSE "none"]

Init ==
    /\ snake = createInitialSnake
    /\ direction = RIGHT
    /\ directionRef = RIGHT
    /\ nextDirectionRef = NULL
    /\ food \in InitialFoodChoices
    /\ isRunning = FALSE
    /\ isGameOver = FALSE
    /\ score = 0
    /\ highScore = 0
    /\ speed = INITIAL_SPEED
    /\ loopRef = 0
    /\ timers = {}
    /\ storage \in StoredItems
    /\ mounted = FALSE
    /\ started = FALSE
    /\ ticks = 0
    /\ silentTicks = NoSilence
    /\ last = [kind |-> "init", from |-> "idle", active |-> NULL,
               outcome |-> "none", buffered |-> "none"]

\* The effects of the first render, in declaration order: the load effect
\* reads the stored item, the persistence effect writes String(0), the
\* transition then sets the parsed high score and the persistence effect
\* writes it back.  The timer effect finds the game stopped.
Mount ==
    /\ ~mounted
    /\ mounted' = TRUE
    /\ LET parsed == IF storage # NULL THEN parseInt(storage) ELSE NaN
       IN  /\ highScore' = IF parsed # NaN THEN parsed ELSE highScore
           /\ storage' = NumberToString(highScore')
    /\ last' = Event("mount")
    /\ UNCHANGED <<snake, direction, directionRef, nextDirectionRef, food,
                   isRunning, isGameOver, score, speed, loopRef, timers,
                   started, ticks, silentTicks>>

\* Mutant: the speed is not reset.
resetGameKeepsSpeed(autoStart, newFood) ==
    /\ snake' = createInitialSnake
    /\ direction' = RIGHT
    /\ directionRef' = RIGHT
    /\ nextDirectionRef' = NULL
    /\ food' = newFood
    /\ score' = 0
    /\ isGameOver' = FALSE
    /\ isRunning' = autoStart
    /\ started' = (started \/ autoStart)
    /\ LET te == TimerEffect(timers, loopRef, TRUE, autoStart, FALSE, speed)
       IN  timers' = te[1] /\ loopRef' = te[2]
    /\ last' = [kind |-> "restart",
                from |-> IF isGameOver THEN "gameover"
                         ELSE IF isRunning THEN "running"
                         ELSE IF started THEN "paused" ELSE "idle",
                active |-> NULL, outcome |-> "none", buffered |-> "none"]
    /\ UNCHANGED <<highScore, storage, mounted, ticks, silentTicks, speed>>

\* Mutant: the buffer is not cleared.
resetGameKeepsBuffer(autoStart, newFood) ==
    /\ snake' = createInitialSnake
    /\ direction' = RIGHT
    /\ directionRef' = RIGHT
    /\ UNCHANGED nextDirectionRef
    /\ food' = newFood
    /\ score' = 0
    /\ speed' = INITIAL_SPEED
    /\ isGameOver' = FALSE
    /\ isRunning' = autoStart
    /\ started' = (started \/ autoStart)
    /\ LET te == TimerEffect(timers, loopRef, TRUE, autoStart, FALSE, INITIAL_SPEED)
       IN  timers' = te[1] /\ loopRef' = te[2]
    /\ last' = [kind |-> "restart",
                from |-> IF isGameOver THEN "gameover"
                         ELSE IF isRunning THEN "running"
                         ELSE IF started THEN "paused" ELSE "idle",
                active |-> NULL, outcome |-> "none", buffered |-> "none"]
    /\ UNCHANGED <<highScore, storage, mounted, ticks, silentTicks>>

\* resetGame(autoStart) (lines 107-118) and the render after it
resetGame(autoStart, newFood) ==
    /\ snake' = createInitialSnake
    /\ direction' = RIGHT
    /\ directionRef' = RIGHT
    /\ nextDirectionRef' = NULL
    /\ food' = newFood
    /\ score' = 0
    /\ speed' = INITIAL_SPEED
    /\ isGameOver' = FALSE
    /\ isRunning' = autoStart
    /\ started' = (started \/ autoStart)
    /\ LET te == TimerEffect(timers, loopRef, TRUE, autoStart, FALSE, INITIAL_SPEED)
       IN  timers' = te[1] /\ loopRef' = te[2]
    /\ last' = Event("restart")
    /\ UNCHANGED <<highScore, storage, mounted, ticks, silentTicks>>

\* setIsRunning(value) and the render after it; a value equal to the state
\* bails out of the render.
setIsRunning(value) ==
    /\ isRunning' = value
    /\ started' = (started \/ value)
    /\ LET te == TimerEffect(timers, loopRef, value # isRunning, value,
                             isGameOver, speed)
       IN  timers' = te[1] /\ loopRef' = te[2]
    /\ UNCHANGED <<snake, direction, directionRef, food, isGameOver, score,
                   highScore, speed, storage, mounted, ticks, silentTicks>>

\* A handler that returned without writing anything.
Nothing == UNCHANGED vars

\* The interval callback (lines 189-200) with step (lines 125-173) and the
\* render after it.  The callback's step closes over the food of the render
\* that armed the interval; the effect re-arms on every setFood, so that is
\* the current food.
TickBody(t) ==
    /\ mounted
    /\ t \in timers
    /\ ticks' = ticks + 1
    /\ LET nextDirection == nextDirectionRef
           activeDirection == IF nextDirection # NULL THEN nextDirection
                              ELSE directionRef
           previousSnake == snake
           nextHead == NextHead(previousSnake[1], activeDirection)
           hitsWall == HitsWall(nextHead)
           hitsSelf == HitsSelf(previousSnake, nextHead)
           nextSnake == <<nextHead>> \o previousSnake
           ateFood == cellsEqual(nextHead, food)
       IN  /\ IF nextDirection # NULL
              THEN /\ direction' = nextDirection
                   /\ directionRef' = nextDirection
                   /\ nextDirectionRef' = NULL
              ELSE UNCHANGED <<direction, directionRef, nextDirectionRef>>
           /\ IF hitsWall \/ hitsSelf
              THEN \* handleGameOver(); return previousSnake
                   /\ isRunning' = FALSE
                   /\ isGameOver' = TRUE
                   /\ snake' = previousSnake
                   /\ UNCHANGED <<food, score, highScore, speed>>
                   /\ last' = TickEvent(activeDirection,
                                        IF hitsWall THEN "wall" ELSE "self")
              ELSE IF ateFood
              THEN /\ food' \in FoodChoices(nextSnake)
                   /\ score' = score + 10
                   /\ highScore' = NextHighScore(score + 10, highScore)
                   /\ speed' = NextSpeed(speed)
                   /\ snake' = nextSnake
                   /\ UNCHANGED <<isRunning, isGameOver>>
                   /\ last' = TickEvent(activeDirection, "ate")
              ELSE /\ snake' = DropTail(nextSnake)
                   /\ UNCHANGED <<food, score, highScore, speed, isRunning,
                                  isGameOver>>
                   /\ last' = TickEvent(activeDirection, "moved")
           /\ storage' = PersistEffect(storage, highScore' # highScore, highScore')
           /\ LET changed == \/ isRunning' # isRunning
                             \/ isGameOver' # isGameOver
                             \/ speed' # speed
                             \/ (~(hitsWall \/ hitsSelf) /\ ateFood)
                  te == TimerEffect(timers, loopRef, changed, isRunning',
                                    isGameOver', speed')
              IN  timers' = te[1] /\ loopRef' = te[2]
    /\ UNCHANGED <<mounted, started>>

\* A tick while the user may still give input, within the ticks explored
Tick(t) ==
    /\ ticks < MaxTicks \/ Len(snake) = GRID_SIZE * GRID_SIZE
    /\ TickBody(t)
    /\ UNCHANGED silentTicks

\* Mutant: a pending direction is not overwritten.
ProposeKeepsFirst(pending, current, desired) ==
    IF Opposite(current, desired) \/ pending # NULL THEN pending ELSE desired

\* The buffer after the keydown listener or an on-screen button proposed
\* desired (lines 229-234, 393-395): a reversal of directionRef.current
\* returns before the write.
Propose(pending, current, desired) ==
    IF Opposite(current, desired) THEN pending ELSE desired

\* Mutant: a direction key never starts the loop.
RunningAfterKeyNever(running, over, current, desired) == running

\* isRunning after the keydown listener handled a direction key (lines 235-237)
RunningAfterKey(running, over, current, desired) ==
    IF Opposite(current, desired) THEN running
    ELSE IF ~running /\ ~over THEN TRUE
    ELSE running

\* isRunning after an on-screen direction button (lines 396-398)
RunningAfterButton(running, over, current, desired) ==
    IF Opposite(current, desired) THEN running
    ELSE IF ~running THEN TRUE
    ELSE running

\* Mutant: the handler turns the snake at once instead of buffering.
DirectionInputStepsAtOnce(pending, running) ==
    IF pending = nextDirectionRef /\ running = isRunning
    THEN Nothing
    ELSE /\ nextDirectionRef' = pending
         /\ isRunning' = running
         /\ started' = (started \/ running)
         /\ LET te == TimerEffect(timers, loopRef, running # isRunning, running,
                                  isGameOver, speed)
            IN  timers' = te[1] /\ loopRef' = te[2]
         /\ LET nextHead == NextHead(snake[1], pending)
            IN  snake' = IF HitsWall(nextHead) \/ HitsSelf(snake, nextHead)
                         THEN snake
                         ELSE DropTail(<<nextHead>> \o snake)
         /\ last' = DirectionEvent(pending)
         /\ UNCHANGED <<direction, directionRef, food, isGameOver, score,
                        highScore, speed, storage, mounted, ticks,
                        silentTicks>>

\* A direction reached the game: the buffer write and the setIsRunning
DirectionInput(pending, running) ==
    IF pending = nextDirectionRef /\ running = isRunning
    THEN Nothing
    ELSE /\ nextDirectionRef' = pending
         /\ setIsRunning(running)
         /\ last' = DirectionEvent(pending)

\* handleKeyDown (lines 211-238)
KeyDown(k) ==
    /\ mounted
    /\ k \in Keys
    /\ LET key == NormalizeKey(k)
           desiredDirection == KEY_TO_DIRECTION(key)
       IN  IF key = " "
           THEN IF isGameOver
                THEN \E newFood \in InitialFoodChoices : resetGame(TRUE, newFood)
                ELSE /\ setIsRunning(~isRunning)
                     /\ last' = Event("toggle")
                     /\ UNCHANGED nextDirectionRef
           ELSE IF desiredDirection = NULL
           THEN Nothing
           ELSE DirectionInput(
                    Propose(nextDirectionRef, directionRef, desiredDirection),
                    RunningAfterKey(isRunning, isGameOver, directionRef,
                                    desiredDirection))

\* onClick of the four on-screen direction buttons (lines 389-452)
DirectionButton(desired) ==
    /\ mounted
    /\ desired \in Directions
    /\ DirectionInput(
           Propose(nextDirectionRef, directionRef, desired),
           RunningAfterButton(isRunning, isGameOver, directionRef, desired))

\* What the render shows (lines 310-311, 338, 347, 356, 368)
showStart == ~isRunning /\ ~isGameOver /\ score = 0
showResume == ~isRunning /\ ~isGameOver /\ score > 0
showPause == isRunning
restartDisabled == score = 0 /\ ~isRunning /\ ~isGameOver

\* handleStart (lines 288-294), from the Start button
handleStart ==
    /\ mounted
    /\ showStart
    /\ IF isGameOver
       THEN \E newFood \in InitialFoodChoices : resetGame(TRUE, newFood)
       ELSE /\ setIsRunning(TRUE)
            /\ last' = Event("start")
            /\ UNCHANGED nextDirectionRef

\* handlePause (lines 296-298), from the Pause button
handlePause ==
    /\ mounted
    /\ showPause
    /\ setIsRunning(FALSE)
    /\ last' = Event("pause")
    /\ UNCHANGED nextDirectionRef

\* handleResume (lines 300-304), from the Resume button
handleResume ==
    /\ mounted
    /\ showResume
    /\ IF ~isGameOver
       THEN /\ setIsRunning(TRUE)
            /\ last' = Event("resume")
            /\ UNCHANGED nextDirectionRef
       ELSE Nothing

\* handleRestart (lines 306-308), from the Restart button
handleRestart ==
    /\ mounted
    /\ ~restartDisabled
    /\ \E newFood \in InitialFoodChoices : resetGame(TRUE, newFood)

Next ==
    \/ Mount
    \/ \E t \in timers : Tick(t)
    \/ \E k \in Keys : KeyDown(k)
    \/ \E d \in Directions : DirectionButton(d)
    \/ handleStart
    \/ handlePause
    \/ handleResume
    \/ handleRestart

Spec == Init /\ [][Next]_vars

----------------------------------------------------------------------------
(* A session whose user stops giving input *)

\* From this point of a running game on, no key is pressed and no button is
\* clicked: the listeners of lines 210-244 and the onClick handlers are not
\* called again, and only the interval callback runs.
StopInput ==
    /\ mounted
    /\ silentTicks = NoSilence
    /\ isRunning
    /\ ~isGameOver
    /\ silentTicks' = 0
    /\ UNCHANGED <<snake, direction, directionRef, nextDirectionRef, food,
                   isRunning, isGameOver, score, highScore, speed, loopRef,
                   timers, storage, mounted, started, ticks, last>>

\* The interval callback after the input has stopped
SilentTick(t) ==
    /\ silentTicks # NoSilence
    /\ TickBody(t)
    /\ silentTicks' = silentTicks + 1

\* The ticks explored before the input stops leave room for GRID_SIZE more.
NextSilent ==
    \/ silentTicks = NoSilence /\ Mount
    \/ /\ silentTicks = NoSilence
       /\ ticks < MaxTicks - GRID_SIZE
       /\ \E t \in timers : Tick(t)
    \/ silentTicks = NoSilence /\ \E k \in Keys : KeyDown(k)
    \/ silentTicks = NoSilence /\ \E d \in Directions : DirectionButton(d)
    \/ silentTicks = NoSilence /\ handleStart
    \/ silentTicks = NoSilence /\ handlePause
    \/ silentTicks = NoSilence /\ handleResume
    \/ silentTicks = NoSilence /\ handleRestart
    \/ StopInput
    \/ \E t \in timers : SilentTick(t)

\* A live interval keeps firing: setInterval calls the callback every period
\* until clearInterval.
SpecSilent ==
    /\ Init
    /\ [][NextSilent]_vars
    /\ WF_vars(\E t \in timers : SilentTick(t))

TypeOK ==
    /\ snake \in Seq(Coords \X Coords)
    /\ direction \in Directions
    /\ directionRef \in Directions
    /\ nextDirectionRef \in Directions \cup {NULL}
    /\ food \in Coords \X Coords
    /\ isRunning \in BOOLEAN
    /\ isGameOver \in BOOLEAN
    /\ score \in Nat
    /\ highScore \in Int
    /\ speed \in SPEED_FLOOR .. INITIAL_SPEED
    /\ loopRef \in Nat
    /\ ticks \in 0 .. (MaxTicks + 1)
    /\ silentTicks \in NoSilence .. GRID_SIZE

----------------------------------------------------------------------------
(* Vocabulary of the properties *)

\* A step of the interval callback
TickStep == ticks' = ticks + 1

\* The cell the head is sent to by a tick that applied direction d
Candidate(d) == <<snake[1][1] + d[1], snake[1][2] + d[2]>>

Reverse(d) == <<0 - d[1], 0 - d[2]>>

AllCells == {<<x, y>> : x \in 0 .. (GRID_SIZE - 1), y \in 0 .. (GRID_SIZE - 1)}

OffBoard(c) == c[1] = 0 - 1 \/ c[2] = 0 - 1 \/ c[1] = GRID_SIZE \/ c[2] = GRID_SIZE

OnSnake(c) == \E i \in 1 .. Len(snake) : snake[i] = c

----------------------------------------------------------------------------
(* C1 *)

\* C1: no instant reversal.  The direction a tick applies to the head is
\* never the reverse of directionRef as it was before the tick, a head that
\* moved was displaced by exactly that direction, a tick that finds the buffer
\* empty applies the unchanged current direction, and proposing the reverse
\* of the current direction (key or on-screen) writes nothing.
C1_NoInstantReversal ==
    [][/\ TickStep =>
            /\ last'.active \in {RIGHT, LEFT, UP, DOWN}
            /\ last'.active # Reverse(directionRef)
            /\ nextDirectionRef = NULL => last'.active = directionRef
            /\ snake'[1] # snake[1] => snake'[1] = Candidate(last'.active)
       /\ \A d \in {RIGHT, LEFT, UP, DOWN} :
            d = Reverse(directionRef) =>
                /\ Propose(nextDirectionRef, directionRef, d) = nextDirectionRef
                /\ RunningAfterKey(isRunning, isGameOver, directionRef, d) = isRunning
                /\ RunningAfterButton(isRunning, isGameOver, directionRef, d) = isRunning
      ]_vars

\* A tick applied a buffered turn: the head moved sideways on the second or
\* a later tick and the turn became the current direction.
C1_Witness ==
    /\ last.kind = "tick"
    /\ last.outcome = "moved"
    /\ last.active \in {UP, DOWN}
    /\ ticks >= 2
    /\ directionRef = last.active

----------------------------------------------------------------------------
(* C2 *)

\* C2: tail-inclusive self collision.  A tick whose candidate head is any
\* cell of the snake as it was before the move, the tail cell included, ends
\* in GameOver and leaves the snake as it was.
C2_TailInclusiveCollision ==
    [][(TickStep /\ OnSnake(Candidate(last'.active))) =>
            /\ isGameOver'
            /\ ~isRunning'
            /\ snake' = snake
      ]_vars

\* The run ended on the tail cell, with no food on it: the tail would have
\* left that cell on this very tick.
C2_Witness ==
    /\ last.kind = "tick"
    /\ isGameOver
    /\ Len(snake) >= 4
    /\ Candidate(last.active) = snake[Len(snake)]
    /\ food # snake[Len(snake)]

----------------------------------------------------------------------------
(* C3 *)

\* C3: wall collision.  A tick whose candidate head has x = -1, y = -1,
\* x = GRID_SIZE or y = GRID_SIZE ends in GameOver with snake, food, score
\* and speed as before the tick.
C3_WallCollision ==
    [][(TickStep /\ OffBoard(Candidate(last'.active))) =>
            /\ isGameOver'
            /\ ~isRunning'
            /\ UNCHANGED <<snake, food, score, speed>>
      ]_vars

\* The run ended on the left wall, the one farthest from the initial head.
C3_Witness ==
    /\ last.kind = "tick"
    /\ isGameOver
    /\ Candidate(last.active)[1] = 0 - 1

----------------------------------------------------------------------------
(* C4 *)

\* The speed update over every interval between the floor and the initial
\* speed, the floor case included (a run on the scaled board ends before the
\* speed gets there).
SpeedStepClamped ==
    \A v \in 60 .. 150 : NextSpeed(v) = (IF v - 4 > 60 THEN v - 4 ELSE 60)

\* C4: food consumption.  On a tick that collides with nothing, a candidate
\* head on the food cell adds 10 to the score, prepends the head and keeps
\* the tail, sets speed to max(60, speed - 4) and highScore to
\* max(highScore, new score); any other candidate leaves length, score,
\* speed, highScore and food unchanged.
C4_FoodConsumption ==
    [][/\ SpeedStepClamped
       /\ (/\ TickStep
           /\ ~OffBoard(Candidate(last'.active))
           /\ ~OnSnake(Candidate(last'.active))) =>
           (IF Candidate(last'.active) = food
            THEN /\ score' = score + 10
                 /\ Len(snake') = Len(snake) + 1
                 /\ snake' = <<Candidate(last'.active)>> \o snake
                 /\ speed' = (IF speed - 4 > 60 THEN speed - 4 ELSE 60)
                 /\ highScore' = (IF highScore > score + 10 THEN highScore
                                  ELSE score + 10)
            ELSE /\ Len(snake') = Len(snake)
                 /\ snake' = <<Candidate(last'.active)>>
                                \o SubSeq(snake, 1, Len(snake) - 1)
                 /\ UNCHANGED <<score, speed, highScore, food>>)
      ]_vars

\* Food was eaten in a run whose score stays below the high score of an
\* earlier run: the maximum keeps the old value.
C4_Witness ==
    /\ last.kind = "tick"
    /\ last.outcome = "ate"
    /\ score = 20
    /\ highScore > score
    /\ Len(snake) = 5

----------------------------------------------------------------------------
(* C5 *)

\* C5: the food cell is not a cell of the snake, except when the snake
\* covers the whole grid, and then the food is (0,0).
C5_FoodDisjoint ==
    /\ OnSnake(food) => (\A c \in AllCells : OnSnake(c))
    /\ (\A c \in AllCells : OnSnake(c)) => food = <<0, 0>>

\* The snake covers the grid and the fallback cell was returned.
C5_Witness ==
    /\ Len(snake) = GRID_SIZE * GRID_SIZE
    /\ food = <<0, 0>>
    /\ last.outcome = "ate"

----------------------------------------------------------------------------
(* C6 *)

\* C6: the snake is a non-empty sequence of pairwise distinct cells of the
\* grid, in GameOver too.
C6_SnakeWellFormed ==
    /\ Len(snake) >= 1
    /\ \A i \in 1 .. Len(snake) :
         /\ 0 <= snake[i][1] /\ snake[i][1] < GRID_SIZE
         /\ 0 <= snake[i][2] /\ snake[i][2] < GRID_SIZE
    /\ \A i, j \in 1 .. Len(snake) : snake[i] = snake[j] => i = j

\* A grown snake ran into its own body and was left as it was.
C6_Witness ==
    /\ isGameOver
    /\ last.outcome = "self"
    /\ Len(snake) >= 5

----------------------------------------------------------------------------
(* C7 *)

\* C7: a restart from Running, Paused or GameOver gives the state of a fresh
\* start (the three centred cells with the head rightmost, which are
\* (13,12),(12,12),(11,12) at the shipped grid size; direction (1,0), empty
\* buffer, score 0, speed 150, not GameOver) and the game is Running; a
\* second restart changes nothing but the food.
C7_Restart ==
    [][last'.kind = "restart" =>
            /\ last'.from \in {"running", "paused", "gameover"}
            /\ LET c == GRID_SIZE \div 2
               IN  snake' = << <<c + 1, c>>, <<c, c>>, <<c - 1, c>> >>
            /\ createInitialSnakeAt(SHIPPED_GRID_SIZE)
                 = << <<13, 12>>, <<12, 12>>, <<11, 12>> >>
            /\ direction' = <<1, 0>>
            /\ directionRef' = <<1, 0>>
            /\ nextDirectionRef' = NULL
            /\ score' = 0
            /\ speed' = 150
            /\ ~isGameOver'
            /\ isRunning'
            /\ last.kind = "restart" =>
                 UNCHANGED <<snake, direction, directionRef, nextDirectionRef,
                             score, speed, isGameOver, isRunning, highScore,
                             timers, loopRef>>
      ]_vars

\* The game was restarted out of GameOver after a run that had scored.
C7_Witness ==
    /\ last.kind = "restart"
    /\ last.from = "gameover"
    /\ highScore > 0
    /\ isRunning

----------------------------------------------------------------------------
(* C8 *)

\* C8: pause freezes the simulation.  No interval is armed and no tick fires
\* while the game is not running; in Idle or Paused every step but a restart
\* leaves snake, food, score and speed alone, and so do the pause and the
\* resume themselves; a resume arms one interval at the current speed, so the
\* next tick works on the state the pause left.
C8_PauseFreezes ==
    [][/\ ~isRunning => timers = {}
       /\ TickStep => (isRunning /\ ~isGameOver)
       /\ (~isRunning /\ ~isGameOver /\ last'.kind # "restart") =>
            UNCHANGED <<snake, food, score, speed>>
       /\ last'.kind \in {"pause", "toggle", "resume", "start", "direction"} =>
            UNCHANGED <<snake, food, score, speed>>
       /\ (~isRunning /\ ~isGameOver /\ isRunning') =>
            /\ Cardinality(timers') = 1
            /\ \A t \in timers' : t[2] = speed'
      ]_vars

\* A run that had moved and scored was paused and has just been resumed.
C8_Witness ==
    /\ last.kind \in {"resume", "toggle"}
    /\ last.from = "paused"
    /\ isRunning
    /\ score > 0
    /\ speed < 150
    /\ Cardinality(timers) = 1

----------------------------------------------------------------------------
(* C9 *)

\* C9 as stated: a directional input in Paused does not by itself make the
\* game Running.
C9_Original ==
    [][(Phase = "paused" /\ last'.kind = "direction") => ~isRunning']_vars

\* C9 as amended: Paused is left for Running by the resume action (Resume
\* button, the Start button shown while the score is 0, Space), by restart,
\* and by every directional input that is not the reverse of the current
\* direction, from the keyboard or the on-screen buttons, exactly as in
\* Idle; a reversing input is discarded and leaves the game Paused.
C9_PausedLeftByDirection ==
    [][/\ (Phase = "paused" /\ isRunning') =>
            last'.kind \in {"resume", "start", "toggle", "restart", "direction"}
       /\ (Phase \in {"paused", "idle"} /\ last'.kind = "direction") =>
            /\ isRunning'
            /\ nextDirectionRef' # Reverse(directionRef)
       /\ Phase \in {"paused", "idle"} =>
            \A d \in {RIGHT, LEFT, UP, DOWN} :
                /\ RunningAfterKey(isRunning, isGameOver, directionRef, d)
                     = (d # Reverse(directionRef))
                /\ RunningAfterButton(isRunning, isGameOver, directionRef, d)
                     = (d # Reverse(directionRef))
      ]_vars

\* A paused run is running again after a directional input.
C9_Witness ==
    /\ last.kind = "direction"
    /\ last.from = "paused"
    /\ isRunning
    /\ ticks > 0

----------------------------------------------------------------------------
(* C10 *)

\* C10: one direction change per tick.  The buffer holds nothing or one
\* direction; a tick applies the buffered direction, or the current one when
\* the buffer is empty, clears the buffer and makes the applied direction
\* the current one; an accepted proposal overwrites the buffer and a
\* reversing one leaves it; pause and resume leave it; a tick that follows a
\* tick with no input between applies the same direction again.
C10_OneChangePerTick ==
    [][/\ nextDirectionRef \in {NULL, RIGHT, LEFT, UP, DOWN}
       /\ TickStep =>
            /\ last'.active = (IF nextDirectionRef # NULL THEN nextDirectionRef
                               ELSE directionRef)
            /\ nextDirectionRef' = NULL
            /\ directionRef' = last'.active
            /\ direction' = last'.active
            /\ snake'[1] # snake[1] => snake'[1] = Candidate(last'.active)
       /\ (TickStep /\ last.kind = "tick") => last'.active = last.active
       /\ \A d \in {RIGHT, LEFT, UP, DOWN} :
            Propose(nextDirectionRef, directionRef, d)
              = (IF d = Reverse(directionRef) THEN nextDirectionRef ELSE d)
       /\ last'.kind = "direction" =>
            /\ nextDirectionRef' \in {RIGHT, LEFT, UP, DOWN}
            /\ UNCHANGED <<direction, directionRef>>
       /\ last'.kind \in {"pause", "toggle", "resume", "start"} =>
            UNCHANGED <<nextDirectionRef, direction, directionRef>>
      ]_vars

\* A proposal replaced a pending one between two ticks and the tick moved
\* the head by the later one.
C10_Witness ==
    /\ last.kind = "tick"
    /\ last.buffered = "replaced"
    /\ last.outcome = "moved"
    /\ last.active # RIGHT
    /\ nextDirectionRef = NULL
    /\ ticks >= 2

----------------------------------------------------------------------------
(* C11 *)

\* C11: input frame condition.  A directional input (key or on-screen
\* button) in any state writes a direction into the buffer and leaves snake,
\* food, score, speed and highScore as they were; once the component is
\* mounted those five change only in a tick or in a restart; and the tick
\* that follows an input reads the direction the input wrote and clears the
\* buffer, so the input is neither lost nor applied twice.
C11_InputFrame ==
    [][/\ last'.kind = "direction" =>
            /\ UNCHANGED <<snake, food, score, speed, highScore>>
            /\ nextDirectionRef' \in {RIGHT, LEFT, UP, DOWN}
       /\ (mounted /\ <<snake, food, score, speed, highScore>>'
                        # <<snake, food, score, speed, highScore>>) =>
            (TickStep \/ last'.kind = "restart")
       /\ (TickStep /\ last.kind = "direction") =>
            /\ last'.active = nextDirectionRef
            /\ nextDirectionRef' = NULL
      ]_vars

\* An input arrived between two ticks of a run that had scored, replacing
\* a direction that was still pending.
C11_Witness ==
    /\ last.kind = "direction"
    /\ last.from = "running"
    /\ last.outcome = "replaced"
    /\ score > 0
    /\ ticks >= 2
    /\ ticks < MaxTicks

----------------------------------------------------------------------------
(* C12 *)

\* C12: single live timer.  At most one interval is live; one is live only
\* while the game is running and not over, and then exactly one; the live
\* interval is the one loopRef holds and its period is the current speed.
C12_SingleLiveTimer ==
    /\ Cardinality(timers) <= 1
    /\ timers # {} => (isRunning /\ ~isGameOver)
    /\ (isRunning /\ ~isGameOver) => Cardinality(timers) = 1
    /\ \A t \in timers : t[1] = loopRef /\ t[2] = speed
    /\ timers = {} => loopRef = 0

\* An interval at a shortened period is live in a run that followed a
\* restart of a run with a higher score.
C12_Witness ==
    /\ last.kind = "tick"
    /\ last.outcome = "ate"
    /\ score = 10
    /\ highScore >= 30
    /\ speed = INITIAL_SPEED - SPEED_STEP
    /\ timers = {<<loopRef, speed>>}

----------------------------------------------------------------------------
(* C13 *)

\* C13: GameOver is terminal until restart.  GameOver is the state in which
\* the game-over flag is set (what the handlers, the scheduling effect and
\* the render test).  In GameOver no interval is live and no tick fires, and
\* every step that is not a restart (directional input from a key or a
\* button, pause, resume, toggle) leaves snake, food, score and speed as they
\* were and the game in GameOver; the step out of GameOver is a restart, and
\* it gives the initial snake, direction and speed, score 0, an empty buffer
\* and a running game.
C13_GameOverTerminal ==
    [][isGameOver =>
            /\ ~TickStep
            /\ timers = {}
            /\ last'.kind # "restart" =>
                 /\ isGameOver'
                 /\ UNCHANGED <<snake, food, score, speed>>
            /\ ~isGameOver' =>
                 /\ last'.kind = "restart"
                 /\ snake' = createInitialSnake
                 /\ direction' = RIGHT
                 /\ directionRef' = RIGHT
                 /\ nextDirectionRef' = NULL
                 /\ score' = 0
                 /\ speed' = INITIAL_SPEED
                 /\ isRunning'
                 /\ food' \in AllCells \ SnakeCells(snake')
      ]_vars

\* A directional input was handled in GameOver after a run that had scored,
\* and the game is still over with the direction left in the buffer.
C13_Witness ==
    /\ isGameOver
    /\ last.kind = "direction"
    /\ last.from = "gameover"
    /\ nextDirectionRef # NULL
    /\ score > 0
    /\ speed < INITIAL_SPEED

----------------------------------------------------------------------------
(* C14 *)

\* C14: the high score never decreases in any step of the session (tick,
\* restart, the load of the stored value on mount), and once the stored
\* value has been loaded it is at least the score.
C14_HighScoreMonotone ==
    [][/\ highScore' >= highScore
       /\ mounted' => highScore' >= score'
      ]_vars

\* What the code keeps: after the load the high score never decreases, it is
\* at least the score as soon as food was eaten, and at least the score in
\* every state when the stored value carried no minus sign.
HighScoreKeptAfterLoad ==
    [][/\ mounted => highScore' >= highScore
       /\ (mounted' /\ score' > 0) => highScore' >= score'
       /\ (mounted' /\ highScore' < score') => storage'[1] = "-"
      ]_vars

----------------------------------------------------------------------------
(* C15 *)

\* A tick that eats: the candidate head is on the board, off the snake and
\* on the food cell.
EatingTick ==
    /\ TickStep
    /\ ~OffBoard(Candidate(last'.active))
    /\ ~OnSnake(Candidate(last'.active))
    /\ Candidate(last'.active) = food

\* The speed update keeps the speed in 60 .. 150 and lowers every speed
\* above the floor.
SpeedStepInRange ==
    \A v \in 60 .. 150 :
        /\ 60 <= NextSpeed(v) /\ NextSpeed(v) <= v
        /\ v > 60 => NextSpeed(v) < v

\* C15: in every step the score stays, or grows by exactly 10 in a tick that
\* eats, or is set to 0 by a restart; the speed stays, or decreases in a tick
\* that eats, or is set to 150 by a restart; the score is a non-negative
\* multiple of 10 and the speed lies in 60 .. 150, which the speed update
\* keeps over that whole range.
C15_ScoreSpeedOnFoodOnly ==
    [][/\ \/ score' = score
          \/ EatingTick /\ score' = score + 10
          \/ last'.kind = "restart" /\ score' = 0
       /\ \/ speed' = speed
          \/ EatingTick /\ speed' < speed
          \/ last'.kind = "restart" /\ speed' = 150
       /\ EatingTick =>
            /\ score' = score + 10
            /\ speed' <= speed
            /\ speed > 60 => speed' < speed
       /\ score >= 0 /\ score % 10 = 0
       /\ score' >= 0 /\ score' % 10 = 0
       /\ 60 <= speed /\ speed <= 150
       /\ 60 <= speed' /\ speed' <= 150
       /\ SpeedStepInRange
      ]_vars

\* The third food of a run was eaten.
C15_Witness ==
    /\ last.kind = "tick"
    /\ last.outcome = "ate"
    /\ score = 30
    /\ speed = 138
    /\ Len(snake) = 6

----------------------------------------------------------------------------
(* C16 *)

\* The arrow key of a direction
ArrowKey(d) ==
    CASE d = UP -> "ArrowUp"
      [] d = DOWN -> "ArrowDown"
      [] d = LEFT -> "ArrowLeft"
      [] d = RIGHT -> "ArrowRight"

\* Pending direction, run flag and game-over flag after the keydown listener
\* handled key k, and after the on-screen button of direction d was pressed
AfterKey(k) ==
    <<Propose(nextDirectionRef, directionRef, KEY_TO_DIRECTION(NormalizeKey(k))),
      RunningAfterKey(isRunning, isGameOver, directionRef,
                      KEY_TO_DIRECTION(NormalizeKey(k))),
      isGameOver>>

AfterButton(d) ==
    <<Propose(nextDirectionRef, directionRef, d),
      RunningAfterButton(isRunning, isGameOver, directionRef, d),
      isGameOver>>

\* C16: touch and keyboard equivalence.  In every reachable state and for
\* each of the four directions the on-screen button leaves the same pending
\* direction, run flag and game-over flag as the arrow key of that direction.
C16_TouchKeyEquivalence ==
    \A d \in {RIGHT, LEFT, UP, DOWN} : AfterButton(d) = AfterKey(ArrowKey(d))

\* What the code keeps: the two sources agree wherever the game is not over,
\* and in GameOver they agree on the pending direction and the game-over flag.
TouchKeyAgreeOutsideGameOver ==
    \A d \in {RIGHT, LEFT, UP, DOWN} :
        /\ ~isGameOver => AfterButton(d) = AfterKey(ArrowKey(d))
        /\ AfterButton(d)[1] = AfterKey(ArrowKey(d))[1]
        /\ AfterButton(d)[3] = AfterKey(ArrowKey(d))[3]

----------------------------------------------------------------------------
(* C17 *)

\* The snake covers the whole grid.
BoardFull == \A c \in AllCells : OnSnake(c)

\* C17: the full board.  A tick that eats and leaves the snake on every cell
\* of the grid gets (0,0) from getRandomFood, as every call of it on such a
\* snake does; on a full board every candidate head is off the board or a
\* snake cell, and the next tick, whatever direction it applies, ends in
\* GameOver and leaves the snake as it was.
C17_FullBoardTerminal ==
    [][/\ (TickStep /\ ~BoardFull /\ BoardFull') =>
            /\ last'.outcome = "ate"
            /\ food' = <<0, 0>>
            /\ FoodChoices(snake') = {<<0, 0>>}
            /\ ~isGameOver'
       /\ BoardFull =>
            \A d \in {RIGHT, LEFT, UP, DOWN} :
                OffBoard(Candidate(d)) \/ OnSnake(Candidate(d))
       /\ (TickStep /\ BoardFull) =>
            /\ isGameOver'
            /\ ~isRunning'
            /\ last'.outcome \in {"wall", "self"}
            /\ snake' = snake
      ]_vars

\* A tick fired on the full board and ended the game.
C17_Witness ==
    /\ BoardFull
    /\ isGameOver
    /\ last.kind = "tick"
    /\ ticks = MaxTicks + 1
    /\ food = <<0, 0>>

----------------------------------------------------------------------------
(* C18 *)

\* C18: the run flag and the game-over flag are never both set; the pair is
\* (false, false) in Idle and Paused, (true, false) in Running and
\* (false, true) in GameOver.
C18_FlagsExclusive ==
    /\ ~(isRunning /\ isGameOver)
    /\ <<isRunning, isGameOver>> \in
         {<<FALSE, FALSE>>, <<TRUE, FALSE>>, <<FALSE, TRUE>>}

\* What the code keeps: both flags are set only after an on-screen direction
\* button was pressed in GameOver, no interval is live then, and the tick
\* that ends a run clears the run flag.
FlagsExclusiveButForButton ==
    [][/\ (isRunning' /\ isGameOver' /\ ~(isRunning /\ isGameOver)) =>
            (last'.kind = "direction" /\ last'.from = "gameover")
       /\ (isRunning /\ isGameOver) => timers = {}
       /\ (TickStep /\ isGameOver') => ~isRunning'
      ]_vars

----------------------------------------------------------------------------
(* C19 *)

\* The speed after k foods of one run
RECURSIVE SpeedAfterFoods(_)
SpeedAfterFoods(k) ==
    IF k = 0 THEN INITIAL_SPEED ELSE NextSpeed(SpeedAfterFoods(k - 1))

\* The closed form over every number of foods a run on the shipped board can
\* eat before the floor and some beyond it.
SpeedClosedForm ==
    \A k \in 0 .. 30 :
        SpeedAfterFoods(k) = (IF 150 - 4 * k > 60 THEN 150 - 4 * k ELSE 60)

\* C19: score, length and speed in lock-step.  In every reachable state,
\* after a restart and in GameOver too, score = 10 * (length - 3) and
\* speed = max(60, 150 - 4 * (score / 10)).
C19_LockStep ==
    /\ score = 10 * (Len(snake) - 3)
    /\ speed = (IF 150 - 4 * (score \div 10) > 60
                THEN 150 - 4 * (score \div 10) ELSE 60)
    /\ SpeedClosedForm

\* A run that had eaten twice ended in GameOver.
C19_Witness ==
    /\ isGameOver
    /\ last.kind = "tick"
    /\ score = 20
    /\ Len(snake) = 5
    /\ speed = 142

----------------------------------------------------------------------------
(* C20 *)

\* While the game is not over after the input stopped, fewer than GRID_SIZE
\* ticks have fired, the game is still running and its interval is live, so
\* the next tick comes; once it is over no interval is live.
SilentBound ==
    (silentTicks # NoSilence) =>
        /\ silentTicks <= GRID_SIZE
        /\ silentTicks = GRID_SIZE => isGameOver
        /\ ~isGameOver => (isRunning /\ timers # {})
        /\ isGameOver => timers = {}

\* C20: termination without input.  Once the input has stopped in a running
\* game and the interval keeps firing, GameOver is reached, and it is
\* reached by the time GRID_SIZE further ticks have fired.
C20_TerminationWithoutInput ==
    /\ []SilentBound
    /\ (silentTicks # NoSilence) ~> isGameOver

\* The run ended on the last of the GRID_SIZE ticks: the head crossed the
\* whole board.
C20_Witness ==
    /\ silentTicks = GRID_SIZE
    /\ isGameOver
    /\ last.kind = "tick"
    /\ last.outcome = "wall"

====
